---- MODULE Spec2Model ----
(***************************************************************************)
(* Model of the criticality simulation engine of thor_reforged:            *)
(*   util.rs            split_range                                        *)
(*   loop_condition.rs  MaxLoopCondition (stop, split_to_threads)          *)
(*   vis_gen.rs         RandomGen (next_states)                            *)
(*   roll_up.rs         RollUp::get_value, OrRule::compute_val             *)
(*   network.rs         Graph (links_map, get_start_id, get_end_id,        *)
(*                      get_bfs_path, roll_up_state)                       *)
(*   criticality/mod.rs Criticality (analyze, calculate_data),             *)
(*                      GraphCritData::add                                 *)
(*   main.rs            main                                               *)
(*                                                                         *)
(* f32 quantities are fixed-point integers in tenths: 1.0 is 10, 0.5 is 5, *)
(* 0.0 is 0; the modelled code only compares them.  The f64 sums of an     *)
(* aggregate are pairs (hi, lo) standing for hi * 2^53 + lo / 10, added    *)
(* with the rounding of f64 from 2^53 on.                                  *)
(* An Option<T> is a sequence of length at most one.                       *)
(* A map (HashMap / BTreeMap) is a function whose DOMAIN is its key set.   *)
(***************************************************************************)
EXTENDS Integers, Sequences, FiniteSets, TLC

\* ------------------------------------------------------------------------
\* Bounds of the model
\* ------------------------------------------------------------------------
MaxMax == 4
MaxThreads == 3
MaxCalls == 6
MaxIds == 3
MaxChildren == 3
MaxNodes == 4
MaxEdges == 3
MaxWorkers == 2
MaxBudget == 4
MaxRows == 4

\* ------------------------------------------------------------------------
\* Generic helpers
\* ------------------------------------------------------------------------
None == << >>
Some(x) == << x >>

EmptyMap == [x \in {} |-> 0]

\* map.get(k)
Get(map, k) == IF k \in DOMAIN map THEN Some(map[k]) ELSE None

\* map.insert(k, v)
Insert(map, k, v) == [x \in (DOMAIN map) \cup {k} |-> IF x = k THEN v ELSE map[x]]

RECURSIVE SumSeq(_)
SumSeq(s) == IF s = << >> THEN 0 ELSE Head(s) + SumSeq(Tail(s))

\* ------------------------------------------------------------------------
\* util.rs
\* ------------------------------------------------------------------------
\* One pass of the `for i in 0..breaks` loop of split_range; `start`, `end`
\* and `out` are the loop's mutable locals.
RECURSIVE split_range_loop(_, _, _, _, _, _)
split_range_loop(i, start, end, max, breaks, out) ==
    IF i = breaks THEN out
    ELSE LET diff == max \div breaks
             end1 == end + diff
             end2 == IF i = breaks - 1 THEN end1 + (max - end1) ELSE end1
         IN  split_range_loop(i + 1, start + diff, end2, max, breaks,
                              Append(out, << start, end2 >>))

\* split_range with the remainder dropped instead of absorbed by the last range
split_range_no_remainder(start, max, breaks) ==
    [i \in 1..breaks |->
        << start + (i - 1) * (max \div breaks), i * (max \div breaks) >>]

split_range(start, max, breaks) ==
    split_range_loop(0, start, 0, max, breaks, << >>)

\* ------------------------------------------------------------------------
\* loop_condition.rs : MaxLoopCondition { max, index }
\* ------------------------------------------------------------------------
MaxLoopCondition(max, index) == [max |-> max, index |-> index]

\* stop() that never advances the index
stop_no_increment(self) ==
    IF self.index = self.max
    THEN [ret |-> TRUE, self |-> self]
    ELSE [ret |-> FALSE, self |-> self]

\* stop(&mut self): the returned bool and the condition after the call
stop(self) ==
    IF self.index = self.max
    THEN [ret |-> TRUE, self |-> self]
    ELSE [ret |-> FALSE, self |-> [self EXCEPT !.index = @ + 1]]

\* split_to_threads(&self, threads)
split_to_threads(self, threads) ==
    LET splits == split_range(self.index, self.max, threads)
    IN  [i \in 1..Len(splits) |->
            MaxLoopCondition(splits[i][2], splits[i][1])]

\* ------------------------------------------------------------------------
\* analyses/mod.rs, roll_up.rs
\* ------------------------------------------------------------------------
VISIBLE_VAL == 1

\* 1.0 and 0.0 in tenths
MAX_OPERABILITY == 10
MIN_OPERABILITY == 0

\* The `for child in children` loop of OrRule::compute_val; `max` is the
\* loop's running maximum.
RECURSIVE compute_val_loop(_, _, _)
compute_val_loop(children, values, max) ==
    IF children = << >> THEN max
    ELSE LET val == Get(values, Head(children))
         IN  IF val = None
             THEN MAX_OPERABILITY
             ELSE compute_val_loop(Tail(children), values,
                                   IF val[1] > max THEN val[1] ELSE max)

\* an OR rule that skips a predecessor without a value
RECURSIVE compute_val_skip_missing(_, _, _)
compute_val_skip_missing(t_id, children, values) ==
    IF children = << >> THEN MIN_OPERABILITY
    ELSE LET rest == compute_val_skip_missing(t_id, Tail(children), values)
             val == Get(values, Head(children))
         IN  IF val = None THEN rest
             ELSE IF val[1] > rest THEN val[1] ELSE rest

\* OrRule::compute_val(&self, _t_id, children, values)
compute_val(t_id, children, values) ==
    compute_val_loop(children, values, MIN_OPERABILITY)

\* get_value that looks the node up in the sample before anything else
get_value_visibility_first(t_id, children, visibilities, values) ==
    LET t_visible == Get(visibilities, t_id)
    IN  IF t_visible # None /\ t_visible[1] # VISIBLE_VAL THEN MIN_OPERABILITY
        ELSE IF children = << >> THEN MAX_OPERABILITY
        ELSE compute_val(t_id, children, values)

\* get_value that treats a node absent from the sample as not visible
get_value_absent_off(t_id, children, visibilities, values) ==
    IF children = << >> THEN MAX_OPERABILITY
    ELSE LET t_visible == Get(visibilities, t_id)
         IN  IF t_visible = Some(VISIBLE_VAL)
             THEN compute_val(t_id, children, values)
             ELSE MIN_OPERABILITY

\* get_value that does not look at the sample
get_value_ignore_visibility(t_id, children, visibilities, values) ==
    IF children = << >> THEN MAX_OPERABILITY
    ELSE compute_val(t_id, children, values)

\* RollUp::get_value(&self, t_id, children, visibilities, values)
get_value(t_id, children, visibilities, values) ==
    IF children = << >> THEN MAX_OPERABILITY
    ELSE LET t_visible == Get(visibilities, t_id)
         IN  IF t_visible = None
             THEN compute_val(t_id, children, values)
             ELSE IF t_visible[1] = VISIBLE_VAL
                  THEN compute_val(t_id, children, values)
                  ELSE MIN_OPERABILITY

\* ------------------------------------------------------------------------
\* network.rs : Graph { nodes, edges, static_nodes }, LinkMap
\* ------------------------------------------------------------------------
\* An Edge { from, to } is the pair << from, to >>.  A LinkMap entry is the
\* pair << predecessors, successors >> (the tuple's .0 and .1).
Graph(nodes, edges, static_nodes) ==
    [nodes |-> nodes, edges |-> edges, static_nodes |-> static_nodes]

\* the orders in which a HashSet / HashMap may iterate over the set S
Orders(S) ==
    {s \in [1..Cardinality(S) -> S] : \A i, j \in DOMAIN s : i # j => s[i] # s[j]}

\* Node { name, id }
Node(name, id) == [name |-> name, id |-> id]

\* Graph::new(), add_node and add_edge on a Graph whose nodes are kept as
\* the HashMap they are, from id to Node
Graph_new == Graph(EmptyMap, {}, {})

\* add_node(&mut self, name, id): the returned Option and the graph after
add_node(self, name, id) ==
    [ret |-> Get(self.nodes, id),
     self |-> [self EXCEPT !.nodes = Insert(@, id, Node(name, id))]]

\* add_edge(&mut self, from, to): the returned bool and the graph after
add_edge(self, from, to) ==
    [ret |-> << from, to >> \notin self.edges,
     self |-> [self EXCEPT !.edges = @ \cup {<< from, to >>}]]

\* the loop of links_map starting a fresh entry for both ends of every edge
RECURSIVE links_map_loop_fresh_entries(_, _)
links_map_loop_fresh_entries(order, map) ==
    IF order = << >> THEN map
    ELSE LET from == Head(order)[1]
             to == Head(order)[2]
             m1 == Insert(map, from, << << >>, << >> >>)
             m2 == IF to \in DOMAIN m1 THEN m1
                   ELSE Insert(m1, to, << << >>, << >> >>)
             m3 == [m2 EXCEPT ![from][2] = Append(@, to)]
             m4 == [m3 EXCEPT ![to][1] = Append(@, from)]
         IN  links_map_loop_fresh_entries(Tail(order), m4)

\* The `for edge in self.edges.iter()` loop of links_map
RECURSIVE links_map_loop(_, _)
links_map_loop(order, map) ==
    IF order = << >> THEN map
    ELSE LET from == Head(order)[1]
             to == Head(order)[2]
             m1 == IF from \in DOMAIN map THEN map
                   ELSE Insert(map, from, << << >>, << >> >>)
             m2 == IF to \in DOMAIN m1 THEN m1
                   ELSE Insert(m1, to, << << >>, << >> >>)
             m3 == [m2 EXCEPT ![from][2] = Append(@, to)]
             m4 == [m3 EXCEPT ![to][1] = Append(@, from)]
         IN  links_map_loop(Tail(order), m4)

\* Graph::links_map(&self), the edge set iterated in the given order
links_map(order) == links_map_loop(order, EmptyMap)

\* Result::Ok / Result::Err
Ok(x) == [ok |-> TRUE, val |-> x]
Err(e) == [ok |-> FALSE, val |-> e]

\* get_start_id that accepts the graph as soon as there is a candidate
get_start_id_any_candidate(map) ==
    LET starts == {n \in DOMAIN map : map[n][1] = << >>}
    IN  IF Cardinality(starts) >= 1
        THEN Ok(CHOOSE n \in starts : TRUE)
        ELSE Err(starts)

\* Graph::get_start_id(map); the error carries the candidates as a set
get_start_id(map) ==
    LET starts == {n \in DOMAIN map : map[n][1] = << >>}
    IN  IF Cardinality(starts) = 1
        THEN Ok(CHOOSE n \in starts : TRUE)
        ELSE Err(starts)

\* Graph::get_end_id(map)
get_end_id(map) ==
    LET ends == {n \in DOMAIN map : map[n][2] = << >>}
    IN  IF Cardinality(ends) = 1
        THEN Ok(CHOOSE n \in ends : TRUE)
        ELSE Err(ends)

\* the same loop pushing to the front of the agenda (a depth-first walk)
RECURSIVE bfs_expand_push_front(_, _, _)
bfs_expand_push_front(succs, agenda, visited) ==
    IF succs = << >> THEN << agenda, visited >>
    ELSE LET parent == Head(succs)
         IN  IF parent \notin visited
             THEN bfs_expand_push_front(Tail(succs), << parent >> \o agenda,
                                        visited \cup {parent})
             ELSE bfs_expand_push_front(Tail(succs), agenda, visited)

\* The `for parent in &map.index(&current).1` loop of get_bfs_path:
\* << agenda, visited >> after it
RECURSIVE bfs_expand(_, _, _)
bfs_expand(succs, agenda, visited) ==
    IF succs = << >> THEN << agenda, visited >>
    ELSE LET parent == Head(succs)
         IN  IF parent \notin visited
             THEN bfs_expand(Tail(succs), Append(agenda, parent), visited \cup {parent})
             ELSE bfs_expand(Tail(succs), agenda, visited)

\* The `while !agenda.is_empty()` loop of get_bfs_path
RECURSIVE get_bfs_path_loop(_, _, _, _)
get_bfs_path_loop(map, path, visited, agenda) ==
    IF agenda = << >> THEN path
    ELSE LET current == Head(agenda)
             path1 == Append(path, current)
         IN  IF current \notin DOMAIN map
             THEN get_bfs_path_loop(map, path1, visited, Tail(agenda))
             ELSE LET e == bfs_expand(map[current][2], Tail(agenda), visited)
                  IN  get_bfs_path_loop(map, path1, e[2], e[1])

\* Graph::get_bfs_path(map, start_id)
get_bfs_path(map, start_id) ==
    get_bfs_path_loop(map, << >>, {start_id}, << start_id >>)

\* path.contains(&x)
contains(path, x) == \E i \in DOMAIN path : path[i] = x

\* validate_end_connection that accepts only the last id of the path
validate_end_connection_last_only(map, start, end) ==
    IF start = end THEN Ok(<< start >>)
    ELSE LET bfs == get_bfs_path(map, start)
         IN  IF bfs[Len(bfs)] = end THEN Ok(bfs)
             ELSE Err([start_id |-> start, end_id |-> end])

\* Graph::validate_end_connection(map, start_id, end_id); the error carries
\* NoEndConnectionError { start_id, end_id }
validate_end_connection(map, start, end) ==
    IF start = end THEN Ok(<< start >>)
    ELSE LET bfs == get_bfs_path(map, start)
         IN  IF contains(bfs, end) THEN Ok(bfs)
             ELSE Err([start_id |-> start, end_id |-> end])

\* One pass of the `for node in graph_path` loop of roll_up_state: the value
\* state after it, None if l_map.get(node).unwrap() panics
roll_up_node(l_map, visibilities, new_state, node) ==
    IF node \notin DOMAIN l_map THEN None
    ELSE Some(Insert(new_state, node,
                     get_value(node, l_map[node][1], visibilities, new_state)))

RECURSIVE roll_up_state_loop(_, _, _, _)
roll_up_state_loop(graph_path, l_map, visibilities, new_state) ==
    IF graph_path = << >> THEN Some(new_state)
    ELSE LET next == roll_up_node(l_map, visibilities, new_state, Head(graph_path))
         IN  IF next = None THEN None
             ELSE roll_up_state_loop(Tail(graph_path), l_map, visibilities, next[1])

\* Graph::roll_up_state(&self, graph_path, l_map, roll_up_rule, visibilities)
\* with the OrRule: Some(value state), None on a panic
roll_up_state(graph_path, l_map, visibilities) ==
    roll_up_state_loop(graph_path, l_map, visibilities, EmptyMap)

\* ------------------------------------------------------------------------
\* vis_gen.rs : RandomGen { rng, ids, off_chances }
\* ------------------------------------------------------------------------
\* 0.5 in tenths
DEFAULT_OFF_CHANCE == 5

RandomGen(ids, off_chances) == [ids |-> ids, off_chances |-> off_chances]

\* self.off_chances.get(id).unwrap_or(&DEFAULT_OFF_CHANCE)
off_chance_of(self, id) ==
    IF id \in DOMAIN self.off_chances THEN self.off_chances[id]
    ELSE DEFAULT_OFF_CHANCE

\* next_states that marks a draw equal to the off chance not visible
next_states_boundary_off(self, rand) ==
    [id \in self.ids |->
        IF off_chance_of(self, id) <= rand[id] THEN 0 ELSE 1]

\* next_states(&mut self); rand[id] is the value self.rng.gen() yields in
\* the loop pass for id
next_states(self, rand) ==
    [id \in self.ids |->
        IF off_chance_of(self, id) < rand[id] THEN 0 ELSE 1]

\* ------------------------------------------------------------------------
\* analyses/criticality/mod.rs : GraphCritData, NodeCritData, calculate_data
\* ------------------------------------------------------------------------
\* An f64 sum is hi * 2^53 + lo / 10: lo counts tenths, as the f32 values
\* do, and hi counts multiples of 2^53, from where on an f64 cannot hold
\* every whole number.
F64(hi, lo) == [hi |-> hi, lo |-> lo]

\* `x as f64` of an f32 value in tenths
as_f64(x) == F64(0, x)

\* the distance, in units of 1.0, between neighbouring f64 values from
\* hi * 2^53 on: 2 in [2^53, 2^54), 4 in [2^54, 2^55), ...
RECURSIVE f64_spacing(_)
f64_spacing(hi) == IF hi = 0 THEN 1 ELSE 2 * f64_spacing(hi \div 2)

\* lo rounded to the nearest multiple of step, a tie to the even multiple
round_ties_even(lo, step) ==
    LET q == lo \div step
        r == lo % step
    IN  IF 2 * r < step THEN q * step
        ELSE IF 2 * r > step THEN (q + 1) * step
        ELSE IF q % 2 = 0 THEN q * step
        ELSE (q + 1) * step

\* a + b on f64: exact below 2^53, rounded to the nearest representable
\* value, ties to even, from 2^53 on
f64_add(a, b) ==
    LET hi == a.hi + b.hi
        lo == a.lo + b.lo
    IN  IF hi = 0 THEN F64(0, lo)
        ELSE F64(hi, round_ties_even(lo, 10 * f64_spacing(hi)))

NodeCritData(sum_end_on, sum_end_off) ==
    [sum_end_on |-> sum_end_on, sum_end_off |-> sum_end_off]

GraphCritData(row_count, end_op_sum, node_data) ==
    [row_count |-> row_count, end_op_sum |-> end_op_sum, node_data |-> node_data]

\* NodeCritData::add(&mut self, d2)
NodeCritData_add(self, d2) ==
    NodeCritData(f64_add(self.sum_end_on, d2.sum_end_on),
                 f64_add(self.sum_end_off, d2.sum_end_off))

\* GraphCritData::add(&mut self, d2)
GraphCritData_add(self, d2) ==
    GraphCritData(self.row_count + d2.row_count,
                  f64_add(self.end_op_sum, d2.end_op_sum),
                  [id \in DOMAIN self.node_data |->
                      NodeCritData_add(self.node_data[id], d2.node_data[id])])

\* calculate_data: the aggregate before the loop
initial_data(dynamic_ids) ==
    GraphCritData(0, as_f64(0),
                  [n_id \in dynamic_ids |-> NodeCritData(as_f64(0), as_f64(0))])

\* single_sample_data with sum_end_on and sum_end_off exchanged
single_sample_data_swapped(result, visibility_state, dynamic_ids, end_id) ==
    IF result = None THEN None
    ELSE IF end_id \notin DOMAIN result[1] THEN None
    ELSE IF \E id \in dynamic_ids : id \notin DOMAIN result[1] THEN None
    ELSE Some(GraphCritData(1, as_f64(result[1][end_id]),
            [id \in dynamic_ids |->
                LET visible == IF id \notin DOMAIN visibility_state THEN TRUE
                               ELSE visibility_state[id] = VISIBLE_VAL
                    state_val == result[1][id]
                IN  IF visible THEN NodeCritData(as_f64(0), as_f64(state_val))
                    ELSE NodeCritData(as_f64(state_val), as_f64(0))]))

\* calculate_data: the single-sample aggregate `new_data` of one roll-up
\* result; None if the roll-up or an unwrap() on result.get panics
single_sample_data(result, visibility_state, dynamic_ids, end_id) ==
    IF result = None THEN None
    ELSE IF end_id \notin DOMAIN result[1] THEN None
    ELSE IF \E id \in dynamic_ids : id \notin DOMAIN result[1] THEN None
    ELSE Some(GraphCritData(1, as_f64(result[1][end_id]),
            [id \in dynamic_ids |->
                LET visible == IF id \notin DOMAIN visibility_state THEN TRUE
                               ELSE visibility_state[id] = VISIBLE_VAL
                    state_val == result[1][id]
                IN  IF visible THEN NodeCritData(as_f64(state_val), as_f64(0))
                    ELSE NodeCritData(as_f64(0), as_f64(state_val))]))

\* a worker thread: where it stands, its loop condition, its seen-set
\* `visited`, its aggregate `data`, the sample drawn in its last pass, and
\* what it has done so far: how often each sample was folded in, the calls
\* of roll_up_state, whether stop() has returned true, the aggregates sent,
\* the condition it was started with, the calls of stop() that returned
\* false, the calls of next_states and the samples they returned
Worker(loop_condition, dynamic_ids) ==
    [pc |-> "loop", loop_condition |-> loop_condition, visited |-> {},
     data |-> initial_data(dynamic_ids), visibility_state |-> None,
     folded |-> EmptyMap, roll_ups |-> 0, stopped |-> FALSE, sent |-> 0,
     first |-> loop_condition, stop_false |-> 0, draws |-> 0, samples |-> {}]

\* data.add and visited.insert exchanged for data.add alone
Fold_without_insert(w, visibility_state, new_data) ==
    [w EXCEPT !.data = GraphCritData_add(@, new_data),
              !.folded = Insert(@, visibility_state,
                                IF visibility_state \in DOMAIN @
                                THEN @[visibility_state] + 1 ELSE 1)]

\* data.add(&new_data); visited.insert(visibility_state)
Fold(w, visibility_state, new_data) ==
    [w EXCEPT !.data = GraphCritData_add(@, new_data),
              !.visited = @ \cup {visibility_state},
              !.folded = Insert(@, visibility_state,
                                IF visibility_state \in DOMAIN @
                                THEN @[visibility_state] + 1 ELSE 1)]

\* the sample of this pass is drawn
Drawn(w, visibility_state) ==
    [w EXCEPT !.visibility_state = Some(visibility_state),
              !.draws = @ + 1,
              !.samples = @ \cup {visibility_state}]

\* roll_up_state is called
RolledUp(w) == [w EXCEPT !.roll_ups = @ + 1]

\* the loop body without the seen-set test
loop_body_no_dedup(w, visibility_state, path, l_map, dynamic_ids, end_id) ==
    LET result == roll_up_state(path, l_map, visibility_state)
        new_data == single_sample_data(result, visibility_state, dynamic_ids, end_id)
        w1 == RolledUp(Drawn(w, visibility_state))
    IN  IF new_data = None THEN [w1 EXCEPT !.pc = "panicked"]
        ELSE Fold(w1, visibility_state, new_data[1])

\* the loop body counting a sample of the seen-set as a row
loop_body_count_duplicates(w, visibility_state, path, l_map, dynamic_ids, end_id) ==
    IF visibility_state \in w.visited
    THEN [Drawn(w, visibility_state) EXCEPT !.data.row_count = @ + 1]
    ELSE LET result == roll_up_state(path, l_map, visibility_state)
             new_data == single_sample_data(result, visibility_state, dynamic_ids, end_id)
             w1 == RolledUp(Drawn(w, visibility_state))
         IN  IF new_data = None THEN [w1 EXCEPT !.pc = "panicked"]
             ELSE Fold(w1, visibility_state, new_data[1])

\* calculate_data: the body of the `while !loop_condition.stop()` loop for
\* the sample drawn in this pass
loop_body(w, visibility_state, path, l_map, dynamic_ids, end_id) ==
    IF visibility_state \in w.visited THEN Drawn(w, visibility_state)
    ELSE LET result == roll_up_state(path, l_map, visibility_state)
             new_data == single_sample_data(result, visibility_state, dynamic_ids, end_id)
             w1 == RolledUp(Drawn(w, visibility_state))
         IN  IF new_data = None THEN [w1 EXCEPT !.pc = "panicked"]
             ELSE Fold(w1, visibility_state, new_data[1])

\* ------------------------------------------------------------------------
\* input.rs : create_graph, create_edge_value_map, STDCritInput::read
\* A cell is a string; a row is a sequence of cells; positions are 0-based
\* as in the code.  Node names are read but not kept: a Graph of the model
\* holds the node ids.
\* ------------------------------------------------------------------------
DEFAULT_NODE_NAME == "DEFAULT"
DEFAULT_NODE_ID == 999999

\* x.trim() on the cells of the model
trim(x) == IF x = " 20" THEN "20" ELSE x

\* string_val.parse::<u32>() on the cells of the model
parse_u32(x) ==
    IF x = "10" THEN Some(10) ELSE IF x = "20" THEN Some(20) ELSE None

\* string_val.parse::<f32>() on the cells of the model, in tenths
parse_f32(x) == IF x = "0.5" THEN Some(5) ELSE None

unwrap_or(opt, default) == IF opt = None THEN default ELSE opt[1]

CellNotFoundError(cell_pos) ==
    [error |-> "CellNotFoundError", cell_pos |-> cell_pos, cell_val |-> ""]

CellNotNumericError(cell_pos, cell_val) ==
    [error |-> "CellNotNumericError", cell_pos |-> cell_pos, cell_val |-> cell_val]

CreateError(task, errors, input) ==
    [task |-> task, errors |-> errors, input |-> input]

\* get_string_cell(list, pos, cell_i, errors): the returned Option and the
\* error list after the call
get_string_cell(list, pos, cell_i, errors) ==
    IF cell_i + 1 \in DOMAIN list
    THEN [val |-> Some(trim(list[cell_i + 1])), errors |-> errors]
    ELSE [val |-> None, errors |-> Append(errors, CellNotFoundError(pos))]

\* string_val.parse::<T>()
parse(T, x) == IF T = "u32" THEN parse_u32(x) ELSE parse_f32(x)

\* get_from_str_cell::<T>(list, pos, cell_i, errors)
get_from_str_cell(T, list, pos, cell_i, errors) ==
    LET cell == get_string_cell(list, pos, cell_i, errors)
        string_val == unwrap_or(cell.val, DEFAULT_NODE_NAME)
        parsed == parse(T, string_val)
    IN  IF parsed # None THEN [val |-> parsed, errors |-> cell.errors]
        ELSE [val |-> None,
              errors |-> Append(cell.errors, CellNotNumericError(pos, string_val))]

\* The `for (y, row) in edges_matrix` loop of create_graph from row y on
RECURSIVE create_graph_loop(_, _, _, _, _)
create_graph_loop(edges_matrix, y, graph, errors, edges) ==
    IF y = Len(edges_matrix)
    THEN [graph |-> graph, errors |-> errors, edges |-> edges]
    ELSE LET row == edges_matrix[y + 1]
             c_name == get_string_cell(row, << 0, y >>, 0, errors)
             p_name == get_string_cell(row, << 2, y >>, 2, c_name.errors)
             c == get_from_str_cell("u32", row, << 1, y >>, 1, p_name.errors)
             p == get_from_str_cell("u32", row, << 3, y >>, 3, c.errors)
             c_id == unwrap_or(c.val, DEFAULT_NODE_ID)
             p_id == unwrap_or(p.val, DEFAULT_NODE_ID)
         IN  create_graph_loop(edges_matrix, y + 1,
                 Graph(graph.nodes \cup {c_id, p_id},
                       graph.edges \cup {<< c_id, p_id >>}, graph.static_nodes),
                 p.errors, Append(edges, << c_id, p_id >>))

\* create_graph(edges_matrix)
create_graph(edges_matrix) ==
    LET r == create_graph_loop(edges_matrix, 0, Graph({}, {}, {}), << >>, << >>)
    IN  IF r.errors = << >> THEN Ok([graph |-> r.graph, edges |-> r.edges])
        ELSE Err(CreateError("creating a graph", r.errors, edges_matrix))

\* The loop of create_edge_value_map from edge y on
RECURSIVE create_edge_value_map_loop(_, _, _, _, _, _)
create_edge_value_map_loop(edges, col, defaults, y, map, errors) ==
    IF y = Len(edges) THEN [map |-> map, errors |-> errors]
    ELSE LET v == get_from_str_cell("f32", col, << 0, y >>, y, errors)
         IN  create_edge_value_map_loop(edges, col, defaults, y + 1,
                 Insert(map, edges[y + 1], unwrap_or(v.val, defaults)), v.errors)

\* create_edge_value_map(edges, col, defaults)
create_edge_value_map(edges, col, defaults) ==
    LET r == create_edge_value_map_loop(edges, col, defaults, 0, EmptyMap, << >>)
    IN  IF r.errors = << >> THEN Ok(r.map)
        ELSE Err(CreateError("creating an edge value map", r.errors, col))

\* read_csv_matrix(path) on a file holding the given records: the csv
\* reader is not flexible, a record of another length than the first one is
\* an error
read_csv_matrix(records) ==
    IF \E i \in DOMAIN records : Len(records[i]) # Len(records[1])
    THEN Err("UnequalLengths")
    ELSE Ok(records)

\* row_to_col_matrix(row_matrix): Some(columns), None when col[i] is out of
\* bounds, that is when a row has more cells than there are rows
row_to_col_matrix(row_matrix) ==
    IF \E y \in DOMAIN row_matrix : Len(row_matrix[y]) > Len(row_matrix)
    THEN None
    ELSE Some([i \in 1..Len(row_matrix) |->
                LET rows == SelectSeq(row_matrix, LAMBDA row : Len(row) >= i)
                IN  [y \in 1..Len(rows) |-> rows[y][i]]])

\* col_to_row_matrix(col_matrix): Some(rows), None when col_matrix[0] is
\* out of bounds
col_to_row_matrix(col_matrix) ==
    IF col_matrix = << >> THEN None
    ELSE Some([i \in 1..Len(col_matrix[1]) |->
                LET cols == SelectSeq(col_matrix, LAMBDA col : Len(col) >= i)
                IN  [x \in 1..Len(cols) |-> cols[x][i]]])

\* STDCritInput::read on the records of the links file and of alpha.csv:
\* Some(Ok(graph)), Some(Err(error)), or None when it panics
read(links_records, alpha_records) ==
    LET links_matrix == read_csv_matrix(links_records)
    IN  IF ~links_matrix.ok THEN Some(links_matrix)
        ELSE LET col == row_to_col_matrix(links_matrix.val)
             IN  IF col = None THEN None
                 ELSE IF col_to_row_matrix(col[1]) = None THEN None
                 ELSE LET alpha_matrix == read_csv_matrix(alpha_records)
                      IN  IF ~alpha_matrix.ok THEN Some(alpha_matrix)
                          ELSE IF alpha_matrix.val = << >> THEN None
                          ELSE LET created == create_graph(links_matrix.val)
                               IN  IF ~created.ok THEN Some(created)
                                   ELSE LET alpha_map ==
                                                create_edge_value_map(created.val.edges,
                                                    alpha_matrix.val[1], -10)
                                        IN  IF ~alpha_map.ok THEN Some(alpha_map)
                                            ELSE Some(Ok(created.val.graph))

\* ------------------------------------------------------------------------
\* State
\* ------------------------------------------------------------------------
VARIABLES
    \* a MaxLoopCondition driven on its own
    cond0,            \* the condition as constructed
    loop_condition,   \* the condition now
    rets,             \* the values returned by the calls to stop() so far
    split_of,         \* Some(condition split_to_threads was called on)
    threads,          \* the argument of that call
    pieces,           \* the conditions it returned, each driven on its own
    piece_false,      \* per piece: calls to stop() that returned false
    piece_stopped,    \* per piece: stop() has returned true
    \* one call of RollUp::get_value or OrRule::compute_val
    t_id,             \* the node whose value is asked for
    children,         \* its predecessor ids
    visibilities,     \* the visibility sample
    values,           \* the values computed so far
    called,           \* the function called, "" before the call
    ret,              \* Some(returned value)
    \* one call of RandomGen::next_states
    gen,              \* the generator (ids, off_chances)
    rand,             \* the draw of the random source per id
    new_states,       \* Some(returned sample)
    \* a graph and what is derived from it
    pc,               \* where the driving code stands
    graph,            \* the Graph
    l_map,            \* its LinkMap
    start_id,         \* the id the traversal starts from
    path,             \* the traversal order
    pos,              \* roll_up_state: nodes of the path done so far
    new_state,        \* roll_up_state: the value state built so far
    \* a run of main and Criticality::analyze
    crit,             \* the Criticality main builds
    loop_conditions,  \* analyze: the split conditions not yet handed out
    workers,          \* the spawned workers, in spawn order
    channel,          \* aggregates sent and not yet received
    received,         \* aggregates the orchestrator has received
    \* one call of get_start_id, get_end_id or validate_end_connection
    end_id,           \* the end_id argument of validate_end_connection
    result,           \* Some(the Result returned)
    \* three aggregates merged with GraphCritData::add
    aggregates,       \* the aggregates as built
    merging,          \* the aggregates now, while they are merged
    adds,             \* the calls receiver.add(&argument) made on them
    merged,           \* the results of the complete merges so far
    \* the input files and what is made of them
    records,          \* the records of the links file
    alpha_records,    \* the records of alpha.csv
    loaded,           \* Some(what create_graph or read has returned)
    \* a graph built call by call
    built,            \* the Graph, its nodes a map from id to Node
    built_links       \* Some(the LinkMap links_map has returned)

condVars == << cond0, loop_condition, rets, split_of, threads, pieces,
               piece_false, piece_stopped >>

rollVars == << t_id, children, visibilities, values, called, ret >>

genVars == << gen, rand, new_states >>

graphVars == << pc, graph, l_map, start_id, path, pos, new_state >>

runVars == << crit, loop_conditions, workers, channel, received >>

netVars == << end_id, result >>

addVars == << aggregates, merging, adds, merged >>

inputVars == << records, alpha_records, loaded >>

buildVars == << built, built_links >>

vars == << condVars, rollVars, genVars, graphVars, runVars, netVars, addVars,
           inputVars, buildVars >>

\* what the operations on one group of variables leave alone
notCond == << rollVars, genVars, graphVars, runVars, netVars, addVars,
    inputVars, buildVars >>
notRoll == << condVars, genVars, graphVars, runVars, netVars, addVars,
    inputVars, buildVars >>
notGen == << condVars, rollVars, graphVars, runVars, netVars, addVars,
    inputVars, buildVars >>
notGraph == << condVars, genVars, runVars, netVars, addVars,
    inputVars, buildVars >>
notRun == << condVars, rollVars, genVars, netVars, addVars,
    inputVars, buildVars >>
notNet == << condVars, rollVars, genVars, runVars, addVars,
    inputVars, buildVars >>
notAdd == << condVars, rollVars, genVars, graphVars, runVars, netVars,
    inputVars, buildVars >>
notInput == << condVars, rollVars, genVars, graphVars, runVars, netVars, addVars,
    buildVars >>
notBuild == << condVars, rollVars, genVars, graphVars, runVars, netVars, addVars,
    inputVars >>

\* ------------------------------------------------------------------------
\* A MaxLoopCondition on its own: stop() and split_to_threads()
\* ------------------------------------------------------------------------
CondInit ==
    /\ \E max \in 0..MaxMax : \E index \in 0..max :
          cond0 = MaxLoopCondition(max, index)
    /\ loop_condition = cond0
    /\ rets = << >>
    /\ split_of = None
    /\ threads = 0
    /\ pieces = << >>
    /\ piece_false = << >>
    /\ piece_stopped = << >>

CondIdle ==
    /\ cond0 = MaxLoopCondition(0, 0)
    /\ loop_condition = cond0
    /\ rets = << >>
    /\ split_of = None
    /\ threads = 0
    /\ pieces = << >>
    /\ piece_false = << >>
    /\ piece_stopped = << >>

\* loop_condition.stop()
Stop ==
    /\ Len(rets) < MaxCalls
    /\ split_of = None
    /\ LET r == stop(loop_condition)
       IN  /\ loop_condition' = r.self
           /\ rets' = Append(rets, r.ret)
    /\ UNCHANGED << cond0, split_of, threads, pieces, piece_false, piece_stopped, notCond >>

\* loop_condition.split_to_threads(n)
SplitToThreads ==
    /\ split_of = None
    /\ \E n \in 1..MaxThreads :
          /\ threads' = n
          /\ pieces' = split_to_threads(loop_condition, n)
          /\ piece_false' = [i \in 1..Len(pieces') |-> 0]
          /\ piece_stopped' = [i \in 1..Len(pieces') |-> FALSE]
    /\ split_of' = Some(loop_condition)
    /\ UNCHANGED << cond0, loop_condition, rets, notCond >>

\* pieces[i].stop(); a piece that split_range left with index > max is not
\* driven further than MaxCalls calls
PieceStop ==
    \E i \in 1..Len(pieces) :
        /\ ~piece_stopped[i]
        /\ piece_false[i] < MaxCalls
        /\ LET r == stop(pieces[i])
           IN  /\ pieces' = [pieces EXCEPT ![i] = r.self]
               /\ piece_false' = [piece_false EXCEPT ![i] = IF r.ret THEN @ ELSE @ + 1]
               /\ piece_stopped' = [piece_stopped EXCEPT ![i] = r.ret]
        /\ UNCHANGED << cond0, loop_condition, rets, split_of, threads, notCond >>

\* ------------------------------------------------------------------------
\* One call of get_value / compute_val on arbitrary arguments
\* ------------------------------------------------------------------------
IdSet == {10 * i : i \in 1..MaxIds}

PartialMaps(D, R) == UNION {[S -> R] : S \in SUBSET D}

\* lists of pairwise distinct ids, as the predecessor lists of a LinkMap are
ChildLists ==
    {s \in UNION {[1..n -> IdSet] : n \in 0..MaxChildren} :
        \A i, j \in DOMAIN s : i # j => s[i] # s[j]}

\* operability values 0.0, 0.2, 0.4, 0.7, 1.0
OpValues == {MIN_OPERABILITY, 2, 4, 7, MAX_OPERABILITY}

\* arguments of a get_value call; ids are only ever used as map keys, so
\* they are interchangeable and the node under evaluation is taken to be 10
GetValueInit ==
    /\ t_id = 10
    /\ children \in ChildLists
    /\ visibilities \in PartialMaps(IdSet, {0, VISIBLE_VAL})
    /\ values \in PartialMaps(IdSet, {MIN_OPERABILITY, 7, MAX_OPERABILITY})
    /\ called = ""
    /\ ret = None

\* arguments of a compute_val call (it takes no sample)
ComputeValInit ==
    /\ t_id \in IdSet
    /\ children \in ChildLists
    /\ visibilities = EmptyMap
    /\ values \in PartialMaps(IdSet, OpValues)
    /\ called = ""
    /\ ret = None

RollIdle ==
    /\ t_id = 0
    /\ children = << >>
    /\ visibilities = EmptyMap
    /\ values = EmptyMap
    /\ called = ""
    /\ ret = None

\* roll_up_rule.get_value(t_id, children, visibilities, values)
GetValue ==
    /\ called = ""
    /\ called' = "get_value"
    /\ ret' = Some(get_value(t_id, children, visibilities, values))
    /\ UNCHANGED << t_id, children, visibilities, values, notRoll >>

\* OrRule.compute_val(t_id, children, values)
ComputeVal ==
    /\ called = ""
    /\ called' = "compute_val"
    /\ ret' = Some(compute_val(t_id, children, values))
    /\ UNCHANGED << t_id, children, visibilities, values, notRoll >>

\* ------------------------------------------------------------------------
\* One call of next_states on an arbitrary generator
\* ------------------------------------------------------------------------
\* off chances 0.0, 0.5, 1.0 and draws 0.0, 0.4, 0.5, 0.6, 0.9 of [0, 1)
OffChances == {0, DEFAULT_OFF_CHANCE, 10}
Draws == {0, 4, DEFAULT_OFF_CHANCE, 6, 9}

GenInit ==
    /\ \E ids \in SUBSET IdSet : \E off_chances \in PartialMaps(IdSet, OffChances) :
          /\ gen = RandomGen(ids, off_chances)
          /\ rand \in [ids -> Draws]
    /\ new_states = None

GenIdle ==
    /\ gen = RandomGen({}, EmptyMap)
    /\ rand = EmptyMap
    /\ new_states = None

\* gen.next_states()
NextStates ==
    /\ new_states = None
    /\ new_states' = Some(next_states(gen, rand))
    /\ UNCHANGED << gen, rand, notGen >>

\* ------------------------------------------------------------------------
\* A graph on its own: links_map, get_bfs_path, roll_up_state
\* ------------------------------------------------------------------------
Nodes == {10 * i : i \in 1..MaxNodes}

\* the subsets of S of at most k elements
RECURSIVE SubsetsUpTo(_, _)
SubsetsUpTo(S, k) ==
    IF k = 0 THEN {{}}
    ELSE LET T == SubsetsUpTo(S, k - 1)
         IN  T \cup {E \cup {e} : E \in T, e \in S}

\* the graphs create_graph can build: every node is an endpoint of an edge
Graphs ==
    {Graph({e[1] : e \in E} \cup {e[2] : e \in E}, E, {}) :
        E \in SubsetsUpTo(Nodes \X Nodes, MaxEdges)}

GraphInit ==
    /\ pc = "graph"
    /\ graph \in Graphs
    /\ l_map = EmptyMap
    /\ start_id = 0
    /\ path = << >>
    /\ pos = 0
    /\ new_state = EmptyMap

\* the acyclic graphs in which 10 is the one node without predecessor, of
\* one edge more than Graphs; the ids are numbered along the edges
TopoGraphs ==
    {Graph({e[1] : e \in E} \cup {e[2] : e \in E}, E, {}) :
        E \in {E \in SubsetsUpTo({e \in Nodes \X Nodes : e[1] < e[2]},
                                   MaxEdges + 1) :
                 {e[2] : e \in E} \cup {10}
                     = {e[1] : e \in E} \cup {e[2] : e \in E}}}

TopoInit ==
    /\ pc = "graph"
    /\ graph \in TopoGraphs
    /\ l_map = EmptyMap
    /\ start_id = 0
    /\ path = << >>
    /\ pos = 0
    /\ new_state = EmptyMap

GraphIdle ==
    /\ pc = ""
    /\ graph = Graph({}, {}, {})
    /\ l_map = EmptyMap
    /\ start_id = 0
    /\ path = << >>
    /\ pos = 0
    /\ new_state = EmptyMap

\* graph.links_map()
LinksMap ==
    /\ pc = "graph"
    /\ \E order \in Orders(graph.edges) : l_map' = links_map(order)
    /\ pc' = "links"
    /\ UNCHANGED << graph, start_id, path, pos, new_state, rollVars, notGraph >>

\* Graph::get_bfs_path(&l_map, start_id)
GetBfsPath ==
    /\ pc = "links"
    /\ \E s \in Nodes :
          /\ start_id' = s
          /\ path' = get_bfs_path(l_map, s)
    /\ pc' = "path"
    /\ UNCHANGED << graph, l_map, pos, new_state, rollVars, notGraph >>

\* graph.roll_up_state(&path, &l_map, &roll_up_rule, &visibilities): entry
RollUpState ==
    /\ pc = "path"
    /\ visibilities' \in PartialMaps(graph.nodes, {0, VISIBLE_VAL})
    /\ new_state' = EmptyMap
    /\ pos' = 0
    /\ pc' = "rollup"
    /\ UNCHANGED << graph, l_map, start_id, path, t_id, children, values,
                    called, ret, notGraph >>

\* roll_up_state: one pass of the loop over the path, i.e. one call of
\* get_value on the value state built so far
RollUpNode ==
    /\ pc = "rollup"
    /\ pos < Len(path)
    /\ LET node == path[pos + 1]
           next == roll_up_node(l_map, visibilities, new_state, node)
       IN  IF next = None
           THEN /\ pc' = "panicked"
                /\ UNCHANGED << pos, new_state, t_id, children, values, called, ret >>
           ELSE /\ t_id' = node
                /\ children' = l_map[node][1]
                /\ values' = new_state
                /\ called' = "get_value"
                /\ ret' = Some(next[1][node])
                /\ new_state' = next[1]
                /\ pos' = pos + 1
                /\ pc' = pc
    /\ UNCHANGED << graph, l_map, start_id, path, visibilities, notGraph >>

\* roll_up_state: the loop is over, the value state is returned
RollUpReturn ==
    /\ pc = "rollup"
    /\ pos = Len(path)
    /\ pc' = "rolled"
    /\ UNCHANGED << graph, l_map, start_id, path, pos, new_state, rollVars, notGraph >>

\* ------------------------------------------------------------------------
\* The checks on a link map: get_start_id, get_end_id and
\* validate_end_connection, each called on the link map of a graph
\* ------------------------------------------------------------------------
NetIdle ==
    /\ end_id = 0
    /\ result = None

\* Graph::get_start_id(&l_map)
GetStartId ==
    /\ pc = "links"
    /\ result' = Some(get_start_id(l_map))
    /\ pc' = "start"
    /\ UNCHANGED << graph, l_map, start_id, path, pos, new_state, end_id,
                    rollVars, notNet >>

\* Graph::get_end_id(&l_map)
GetEndId ==
    /\ pc = "links"
    /\ result' = Some(get_end_id(l_map))
    /\ pc' = "end"
    /\ UNCHANGED << graph, l_map, start_id, path, pos, new_state, end_id,
                    rollVars, notNet >>

\* Graph::validate_end_connection(&l_map, start_id, end_id), called after
\* get_bfs_path(&l_map, start_id) as analyze computes it
ValidateEndConnection ==
    /\ pc = "path"
    /\ \E e \in Nodes :
          /\ end_id' = e
          /\ result' = Some(validate_end_connection(l_map, start_id, e))
    /\ pc' = "validated"
    /\ UNCHANGED << graph, l_map, start_id, path, pos, new_state,
                    rollVars, notNet >>

\* ------------------------------------------------------------------------
\* Three aggregates over one key set merged with GraphCritData::add, in
\* every order and grouping
\* ------------------------------------------------------------------------
\* 0.0, 1.0 and 2^53
F64Values == {F64(0, 0), F64(0, 10), F64(1, 0)}

\* the aggregates over the dynamic ids K
CritDataOver(K) ==
    {GraphCritData(row_count, end_op_sum, node_data) :
        row_count \in 0..1, end_op_sum \in F64Values,
        node_data \in [K -> {NodeCritData(F64(0, 0), F64(0, 0)),
                             NodeCritData(F64(0, 10), F64(0, 0)),
                             NodeCritData(F64(0, 0), F64(0, 10)),
                             NodeCritData(F64(1, 0), F64(0, 10))}]}

AddInit ==
    /\ \E K \in {{}, {20}} : aggregates \in [1..3 -> CritDataOver(K)]
    /\ merging = aggregates
    /\ adds = << >>
    /\ merged = {}

AddIdle ==
    /\ aggregates = << >>
    /\ merging = << >>
    /\ adds = << >>
    /\ merged = {}

\* the aggregates that were the argument of an add
Absorbed == {adds[k][2] : k \in DOMAIN adds}

\* merging[i].add(&merging[j]): neither was merged into another aggregate
\* before
Add ==
    /\ Len(adds) < 2
    /\ \E i, j \in (1..3) \ Absorbed :
          /\ i # j
          /\ merging' = [merging EXCEPT ![i] = GraphCritData_add(@, merging[j])]
          /\ adds' = Append(adds, << i, j >>)
    /\ UNCHANGED << aggregates, merged, notAdd >>

\* all three aggregates are merged into one: the result is kept and the
\* merge starts afresh from the aggregates as built
Merged ==
    /\ Len(adds) = 2
    /\ merged' = merged \cup {merging[adds[2][1]]}
    /\ merging' = aggregates
    /\ adds' = << >>
    /\ UNCHANGED << aggregates, notAdd >>

\* ------------------------------------------------------------------------
\* Loading: create_graph on a matrix of rows, STDCritInput::read on the
\* records of the two files
\* ------------------------------------------------------------------------
\* a row: a name, an id, a name, an id, whole or cut off after 1 or 3
\* cells; an id cell is numeric, numeric with a blank in front, or not
\* numeric
IdCells == {"10", " 20", "x"}

Rows ==
    {<< "a", c, "b", p >> : c \in IdCells, p \in IdCells}
        \cup {<< "a" >>, << "a", "10", "b" >>}

Matrices == UNION {[1..n -> Rows] : n \in 0..MaxRows}

\* alpha.csv: no record, one record with a value per row, the same with a
\* cell that is not a number
AlphaMatrices ==
    { << >>,
      << [y \in 1..MaxRows |-> "0.5"] >>,
      << [y \in 1..MaxRows |-> IF y = 1 THEN "x" ELSE "0.5"] >> }

InputInit ==
    /\ records \in Matrices
    /\ alpha_records \in AlphaMatrices
    /\ loaded = None

InputIdle ==
    /\ records = << >>
    /\ alpha_records = << >>
    /\ loaded = None

\* create_graph(&links_map) on the records as rows
CreateGraph ==
    /\ loaded = None
    /\ loaded' = Some([call |-> "create_graph", ret |-> Some(create_graph(records))])
    /\ UNCHANGED << records, alpha_records, notInput >>

\* crit_input.read(crit_config)
Read ==
    /\ loaded = None
    /\ loaded' = Some([call |-> "read", ret |-> read(records, alpha_records)])
    /\ UNCHANGED << records, alpha_records, notInput >>

\* ------------------------------------------------------------------------
\* A graph built by calls of add_node and add_edge, then links_map
\* ------------------------------------------------------------------------
\* the ids and names the calls are made with
BuildIds == {10, 20, 30}
BuildNames == {"a", "b"}

BuildInit ==
    /\ built = Graph_new
    /\ built_links = None

BuildIdle ==
    /\ built = Graph_new
    /\ built_links = None

\* graph.add_node(name, id)
AddNode ==
    /\ built_links = None
    /\ \E name \in BuildNames, id \in BuildIds :
          built' = add_node(built, name, id).self
    /\ UNCHANGED << built_links, notBuild >>

\* graph.add_edge(from, to); the graph holds MaxEdges edges at most
AddEdge ==
    /\ built_links = None
    /\ \E from \in BuildIds, to \in BuildIds :
          /\ << from, to >> \in built.edges \/ Cardinality(built.edges) < MaxEdges
          /\ built' = add_edge(built, from, to).self
    /\ UNCHANGED << built_links, notBuild >>

\* graph.links_map()
BuiltLinksMap ==
    /\ built_links = None
    /\ \E order \in Orders(built.edges) : built_links' = Some(links_map(order))
    /\ UNCHANGED << built, notBuild >>

\* ------------------------------------------------------------------------
\* A run of the program: main, Criticality::analyze, the worker threads
\* ------------------------------------------------------------------------
Criticality(n_threads, dynamic_ids, vis_gen, cond, end) ==
    [threads |-> n_threads, dynamic_ids |-> dynamic_ids, vis_gen |-> vis_gen,
     loop_condition |-> cond, end_id |-> end]

NoCriticality ==
    Criticality(0, {}, RandomGen({}, EmptyMap), MaxLoopCondition(0, 0), 0)

\* the off chances of a run: none configured (as main does, every node
\* then has the default 0.5), or 0.0 or 1.0 configured for every node
OffChanceConfigs(nodes) ==
    {EmptyMap} \cup {[n \in nodes |-> c] : c \in {0, 10}}

\* The graphs a run is started on, one per shape: a single edge, the chain
\* of three and of four nodes, a convergent graph, two start candidates, a
\* cycle without start or end, a node off the traversal, an end node off the
\* traversal, and the empty graph.
RunEdgeSets ==
    { {<< 10, 20 >>},
      {<< 10, 20 >>, << 20, 30 >>},
      {<< 10, 20 >>, << 20, 30 >>, << 30, 40 >>},
      {<< 10, 20 >>, << 10, 30 >>, << 20, 30 >>},
      {<< 10, 30 >>, << 20, 30 >>},
      {<< 10, 20 >>, << 20, 10 >>},
      {<< 10, 20 >>, << 30, 30 >>},
      {<< 10, 30 >>, << 30, 30 >>, << 40, 40 >>, << 40, 20 >>},
      {} }

\* the values the random source yields in a run: 0.0 and 0.9
RunDraws == {0, 9}

RunGraphs ==
    {Graph({e[1] : e \in E} \cup {e[2] : e \in E}, E, {}) : E \in RunEdgeSets}

RunInit ==
    /\ crit = NoCriticality
    /\ loop_conditions = << >>
    /\ workers = << >>
    /\ channel = << >>
    /\ received = << >>

\* the state main starts from: crit_input.read has returned the graph
MainInit ==
    /\ pc = "main"
    /\ graph \in RunGraphs
    /\ l_map = EmptyMap
    /\ start_id = 0
    /\ path = << >>
    /\ pos = 0
    /\ new_state = EmptyMap

\* main: from the link map to the call of crit.analyze().  The worker count
\* (num_cpus), the budget (9 in main) and the off chances (none in main)
\* range over small sets.
Main ==
    /\ pc = "main"
    /\ \E order \in Orders(graph.edges) :
          /\ l_map' = links_map(order)
          /\ LET s == get_start_id(l_map')
                 e == get_end_id(l_map')
             IN  IF ~s.ok \/ ~e.ok
                 THEN /\ pc' = "panicked"
                      /\ UNCHANGED << graph, start_id, crit >>
                 ELSE /\ pc' = "analyze"
                      /\ start_id' = s.val
                      /\ graph' = [graph EXCEPT !.static_nodes = {s.val, e.val}]
                      /\ \E n \in 1..MaxWorkers, max \in 0..MaxBudget,
                            off_chances \in OffChanceConfigs(graph.nodes) :
                            LET dynamic_ids == graph.nodes \ {s.val, e.val}
                            IN  crit' = Criticality(n, dynamic_ids,
                                           RandomGen(dynamic_ids, off_chances),
                                           MaxLoopCondition(max, 0), e.val)
    /\ UNCHANGED << path, pos, new_state, loop_conditions, workers, channel,
                    received, notRun >>

\* analyze, up to the spawn loop: the traversal order and the split
Analyze ==
    /\ pc = "analyze"
    /\ path' = get_bfs_path(l_map, start_id)
    /\ loop_conditions' = split_to_threads(crit.loop_condition, crit.threads)
    /\ pc' = "spawn"
    /\ UNCHANGED << graph, l_map, start_id, pos, new_state, crit, workers,
                    channel, received, notRun >>

\* analyze: one pass of the spawn loop; the worker gets the last condition
Spawn ==
    /\ pc = "spawn"
    /\ Len(workers) < crit.threads
    /\ workers' = Append(workers,
                         Worker(loop_conditions[Len(loop_conditions)], crit.dynamic_ids))
    /\ loop_conditions' = SubSeq(loop_conditions, 1, Len(loop_conditions) - 1)
    /\ pc' = IF Len(workers') = crit.threads THEN "receive" ELSE "spawn"
    /\ UNCHANGED << graph, l_map, start_id, path, pos, new_state, crit,
                    channel, received, notRun >>

\* one pass of the loop testing the sample against every worker's seen-set
WorkerLoopOf_shared_seen(i) ==
    /\ i \in 1..Len(workers)
    /\ workers[i].pc = "loop"
    /\ LET r == stop(workers[i].loop_condition)
           w == [workers[i] EXCEPT !.loop_condition = r.self]
       IN  IF r.ret
           THEN workers' = [workers EXCEPT ![i] =
                               [w EXCEPT !.pc = "send", !.stopped = TRUE]]
           ELSE \E draw \in [crit.vis_gen.ids -> RunDraws] :
                    LET w1 == [w EXCEPT !.stop_false = @ + 1]
                        sample == next_states(crit.vis_gen, draw)
                    IN  workers' = [workers EXCEPT ![i] =
                            IF \E k \in 1..Len(workers) : sample \in workers[k].visited
                            THEN Drawn(w1, sample)
                            ELSE loop_body(w1, sample, path,
                                           l_map, crit.dynamic_ids, crit.end_id)]
    /\ UNCHANGED << graphVars, crit, loop_conditions, channel, received, notRun >>

\* worker i: one pass of calculate_data's loop, the call of stop() included
WorkerLoopOf(i) ==
    /\ i \in 1..Len(workers)
    /\ workers[i].pc = "loop"
    /\ LET r == stop(workers[i].loop_condition)
           w == [workers[i] EXCEPT !.loop_condition = r.self]
       IN  IF r.ret
           THEN workers' = [workers EXCEPT ![i] =
                               [w EXCEPT !.pc = "send", !.stopped = TRUE]]
           ELSE \E draw \in [crit.vis_gen.ids -> RunDraws] :
                    workers' = [workers EXCEPT ![i] =
                        loop_body([w EXCEPT !.stop_false = @ + 1],
                                  next_states(crit.vis_gen, draw), path,
                                  l_map, crit.dynamic_ids, crit.end_id)]
    /\ UNCHANGED << graphVars, crit, loop_conditions, channel, received, notRun >>

WorkerLoop == \E i \in 1..Len(workers) : WorkerLoopOf(i)

\* a worker: tx.send(data) after calculate_data has returned; the thread
\* ends and its sender is dropped
WorkerSendOf(i) ==
    /\ i \in 1..Len(workers)
    /\ workers[i].pc = "send"
    /\ channel' = Append(channel, workers[i].data)
    /\ workers' = [workers EXCEPT ![i].pc = "done", ![i].sent = @ + 1]
    /\ UNCHANGED << graphVars, crit, loop_conditions, received, notRun >>

WorkerSend == \E i \in 1..Len(workers) : WorkerSendOf(i)

\* analyze: one pass of `for received in rx`
Receive ==
    /\ pc = "receive"
    /\ channel # << >>
    /\ received' = Append(received, Head(channel))
    /\ channel' = Tail(channel)
    /\ UNCHANGED << graphVars, crit, loop_conditions, workers, notRun >>

\* analyze: every sender is dropped and the channel is empty, the receive
\* loop ends and analyze returns
Return ==
    /\ pc = "receive"
    /\ channel = << >>
    /\ \A i \in 1..Len(workers) : workers[i].pc \in {"done", "panicked"}
    /\ pc' = "done"
    /\ UNCHANGED << graph, l_map, start_id, path, pos, new_state, runVars, notRun >>

\* ------------------------------------------------------------------------
\* Specifications
\* ------------------------------------------------------------------------
InitCond ==
    CondInit /\ RollIdle /\ GenIdle /\ GraphIdle /\ RunInit
    /\ NetIdle /\ AddIdle /\ InputIdle /\ BuildIdle

NextCond == Stop \/ SplitToThreads \/ PieceStop

SpecCond == InitCond /\ [][NextCond]_vars

InitGetValue ==
    GetValueInit /\ CondIdle /\ GenIdle /\ GraphIdle /\ RunInit
    /\ NetIdle /\ AddIdle /\ InputIdle /\ BuildIdle

NextGetValue == GetValue

SpecGetValue == InitGetValue /\ [][NextGetValue]_vars

InitComputeVal ==
    ComputeValInit /\ CondIdle /\ GenIdle /\ GraphIdle /\ RunInit
    /\ NetIdle /\ AddIdle /\ InputIdle /\ BuildIdle

NextComputeVal == ComputeVal

SpecComputeVal == InitComputeVal /\ [][NextComputeVal]_vars

InitGen ==
    GenInit /\ CondIdle /\ RollIdle /\ GraphIdle /\ RunInit
    /\ NetIdle /\ AddIdle /\ InputIdle /\ BuildIdle

NextGen == NextStates

SpecGen == InitGen /\ [][NextGen]_vars

InitGraph ==
    GraphInit /\ RollIdle /\ CondIdle /\ GenIdle /\ RunInit
    /\ NetIdle /\ AddIdle /\ InputIdle /\ BuildIdle

NextGraph == LinksMap \/ GetBfsPath \/ RollUpState \/ RollUpNode \/ RollUpReturn

SpecGraph == InitGraph /\ [][NextGraph]_vars

InitAdd ==
    AddInit /\ CondIdle /\ RollIdle /\ GenIdle /\ GraphIdle /\ RunInit
    /\ NetIdle /\ InputIdle /\ BuildIdle

InitInput ==
    InputInit /\ CondIdle /\ RollIdle /\ GenIdle /\ GraphIdle /\ RunInit
    /\ NetIdle /\ AddIdle /\ BuildIdle

InitTopo ==
    TopoInit /\ CondIdle /\ RollIdle /\ GenIdle /\ RunInit
    /\ NetIdle /\ AddIdle /\ InputIdle /\ BuildIdle

SpecTopo == InitTopo /\ [][NextGraph]_vars

InitBuild ==
    BuildInit /\ CondIdle /\ RollIdle /\ GenIdle /\ GraphIdle /\ RunInit
    /\ NetIdle /\ AddIdle /\ InputIdle

NextBuild == AddNode \/ AddEdge \/ BuiltLinksMap

SpecBuild == InitBuild /\ [][NextBuild]_vars

NextInput == CreateGraph \/ Read

SpecInput == InitInput /\ [][NextInput]_vars

NextAdd == Add \/ Merged

SpecAdd == InitAdd /\ [][NextAdd]_vars

NextNet == LinksMap \/ GetStartId \/ GetEndId \/ GetBfsPath \/ ValidateEndConnection

SpecNet == InitGraph /\ [][NextNet]_vars

Init ==
    MainInit /\ RunInit /\ CondIdle /\ RollIdle /\ GenIdle
    /\ NetIdle /\ AddIdle /\ InputIdle /\ BuildIdle

Next == Main \/ Analyze \/ Spawn \/ WorkerLoop \/ WorkerSend \/ Receive \/ Return

Spec == Init /\ [][Next]_vars

\* The main thread and every spawned thread keep being scheduled: a step
\* that stays possible is eventually taken.
Fairness ==
    /\ WF_vars(Main \/ Analyze \/ Spawn \/ Receive \/ Return)
    /\ \A i \in 1..MaxWorkers : WF_vars(WorkerLoopOf(i) \/ WorkerSendOf(i))

FairSpec == Init /\ [][Next]_vars /\ Fairness

\* ------------------------------------------------------------------------
\* Claims on util.rs and loop_condition.rs (checked under SpecCond)
\* ------------------------------------------------------------------------
Min(a, b) == IF a <= b THEN a ELSE b

\* no piece returned by split_to_threads has been advanced yet
PiecesAsReturned ==
    /\ split_of # None
    /\ \A i \in 1..Len(pieces) : piece_false[i] = 0

\* C1: for start <= max and n >= 1, split_range(start, max, n) (and so the
\* (index, max) pairs of split_to_threads(n)) is exactly n ranges with
\* s_1 = start, e_n = max, s_i <= e_i and e_i = s_(i+1): contiguous,
\* gap-free, non-overlapping, with union [start, max].
C1_SplitRangePartitions ==
    PiecesAsReturned =>
        /\ Len(pieces) = threads
        /\ pieces[1].index = split_of[1].index
        /\ pieces[threads].max = split_of[1].max
        /\ \A i \in 1..Len(pieces) : pieces[i].index <= pieces[i].max
        /\ \A i \in 1..(Len(pieces) - 1) : pieces[i].max = pieces[i + 1].index

\* C2: for MaxLoopCondition{max = k, index = 0} the first k calls to stop()
\* return false and each advances index by one, the (k+1)-th call returns
\* true, and every later call returns true and leaves index at k.
C2_StopFalseExactlyMaxTimes ==
    cond0.index = 0 =>
        /\ \A i \in 1..Len(rets) : rets[i] = (i > cond0.max)
        /\ loop_condition.index = Min(Len(rets), cond0.max)
        /\ loop_condition.max = cond0.max

C2_Witness ==
    /\ cond0 = MaxLoopCondition(2, 0)
    /\ rets = << FALSE, FALSE, TRUE, TRUE >>
    /\ loop_condition.index = 2

\* C3: for MaxLoopCondition{max = k, index = 0} and n >= 1,
\* split_to_threads(n) returns exactly n conditions and the numbers of
\* false-returning stop() calls of the n pieces, each run until it first
\* returns true, sum to k.
C3_SplitFalseCountsSumToMax ==
    (split_of # None /\ split_of[1].index = 0) =>
        /\ Len(pieces) = threads
        /\ (\A i \in 1..Len(pieces) : piece_stopped[i]) =>
               SumSeq(piece_false) = split_of[1].max

\* k = 4 split into n = 3 pieces (k not divisible by n), all run to the end
C3_Witness ==
    /\ split_of = Some(MaxLoopCondition(4, 0))
    /\ threads = 3
    /\ \A i \in 1..Len(pieces) : piece_stopped[i]
    /\ piece_false = << 1, 1, 2 >>

\* ------------------------------------------------------------------------
\* Claims on vis_gen.rs (checked under SpecGen)
\* ------------------------------------------------------------------------
\* the returned sample has the generator's ids as keys and only flags 0 / 1
SampleShape ==
    /\ DOMAIN new_states[1] = gen.ids
    /\ \A id \in gen.ids : new_states[1][id] \in {0, 1}

\* C6 as stated: an id is marked not-visible (0) exactly when its draw is
\* >= its off chance (0.5 if unconfigured), visible (1) exactly when the
\* draw is below it; a draw equal to the off chance gives not-visible.
C6_NotVisibleIffDrawAtLeastOffChance ==
    new_states # None =>
        /\ SampleShape
        /\ \A id \in gen.ids :
              /\ new_states[1][id] = 0 <=> rand[id] >= off_chance_of(gen, id)
              /\ new_states[1][id] = 1 <=> rand[id] < off_chance_of(gen, id)

\* C6 (amended): an id is marked not-visible (0) exactly when its draw is
\* strictly greater than its off chance (0.5 if unconfigured) and visible
\* (1) exactly when the draw is <= it; a draw equal to the off chance gives
\* visible.  The sample's key set is the generator's id set, flags are 0 / 1.
C6_NotVisibleIffDrawAboveOffChance ==
    new_states # None =>
        /\ SampleShape
        /\ \A id \in gen.ids :
              /\ new_states[1][id] = 0 <=> rand[id] > off_chance_of(gen, id)
              /\ new_states[1][id] = 1 <=> rand[id] <= off_chance_of(gen, id)

\* an unconfigured id drawn exactly at the default off chance, one drawn
\* above its off chance and one below
C6_Witness ==
    /\ new_states # None
    /\ \E id \in gen.ids :
          /\ id \notin DOMAIN gen.off_chances
          /\ rand[id] = DEFAULT_OFF_CHANCE
          /\ new_states[1][id] = 1
    /\ \E id \in gen.ids : rand[id] > off_chance_of(gen, id) /\ new_states[1][id] = 0
    /\ \E id \in gen.ids : rand[id] < off_chance_of(gen, id) /\ new_states[1][id] = 1

\* ------------------------------------------------------------------------
\* Claims on roll_up.rs (checked under SpecGetValue and SpecComputeVal)
\* ------------------------------------------------------------------------
\* C8: get_value returns 1.0 for a node with an empty predecessor list,
\* whatever the sample says about the node and whatever the value state is.
C8_LeafIsFullyOperable ==
    (called = "get_value" /\ children = << >>) => ret = Some(MAX_OPERABILITY)

\* a leaf the sample marks not visible
C8_Witness ==
    /\ called = "get_value"
    /\ children = << >>
    /\ Get(visibilities, t_id) = Some(0)
    /\ values # EmptyMap
    /\ ret = Some(MAX_OPERABILITY)

\* C9: for a node with at least one predecessor, get_value returns 0.0 when
\* the sample marks the node not visible, and the rule's combination of the
\* predecessor values when the node is absent from the sample or marked
\* visible (the same result in both cases).
C9_VisibilityGatesCombination ==
    (called = "get_value" /\ children # << >>) =>
        /\ Get(visibilities, t_id) = Some(0) => ret = Some(MIN_OPERABILITY)
        /\ Get(visibilities, t_id) \in {None, Some(VISIBLE_VAL)} =>
               ret = Some(compute_val(t_id, children, values))

\* a not-visible node whose predecessors are all fully operable
C9_Witness ==
    /\ called = "get_value"
    /\ Len(children) = 2
    /\ Get(visibilities, t_id) = Some(0)
    /\ \A i \in DOMAIN children : Get(values, children[i]) = Some(MAX_OPERABILITY)
    /\ ret = Some(MIN_OPERABILITY)

\* the maximum of a non-empty finite set of numbers
MaxOf(S) == CHOOSE m \in S : \A x \in S : x <= m

\* C10: compute_val returns the maximum of the predecessors' values when
\* every predecessor has a value, and 1.0 when some predecessor has none,
\* whatever the order of the predecessor ids.
C10_OrRuleIsMaximum ==
    (called = "compute_val" /\ children # << >>) =>
        IF \A i \in DOMAIN children : children[i] \in DOMAIN values
        THEN ret = Some(MaxOf({values[children[i]] : i \in DOMAIN children}))
        ELSE ret = Some(MAX_OPERABILITY)

\* the predecessor values 0.2, 0.7, 0.4 give 0.7
C10_Witness ==
    /\ called = "compute_val"
    /\ children = << 10, 20, 30 >>
    /\ values = [x \in {10, 20, 30} |-> IF x = 10 THEN 2 ELSE IF x = 20 THEN 7 ELSE 4]
    /\ ret = Some(7)

\* ------------------------------------------------------------------------
\* Claims on network.rs (checked under SpecGraph)
\* ------------------------------------------------------------------------
\* the ids reachable from the set S along zero or more edges of E
RECURSIVE ReachFrom(_, _)
ReachFrom(E, S) ==
    LET T == S \cup {e[2] : e \in {d \in E : d[1] \in S}}
    IN  IF T = S THEN S ELSE ReachFrom(E, T)

Acyclic(E) == \A e \in E : e[1] \notin ReachFrom(E, {e[2]})

\* C7: on an acyclic graph with a unique start node, whenever roll_up_state
\* computes the value of a node of traversal_order(start_id), every
\* predecessor of that node already has an entry in the value state built so
\* far (every predecessor precedes the node in the breadth-first order).
C7_PredecessorsValuedFirst ==
    ( /\ pc \in {"rollup", "rolled"}
      /\ pos > 0
      /\ Acyclic(graph.edges)
      /\ get_start_id(l_map).ok
      /\ get_start_id(l_map).val = start_id ) =>
        \A i \in DOMAIN children : children[i] \in DOMAIN values

\* ------------------------------------------------------------------------
\* Claims on the checks of a link map and the traversal (checked under
\* SpecNet)
\* ------------------------------------------------------------------------
\* the nodes of the graph no edge leads to / no edge leaves
NoPredecessor == {n \in graph.nodes : ~ \E e \in graph.edges : e[2] = n}
NoSuccessor == {n \in graph.nodes : ~ \E e \in graph.edges : e[1] = n}

Unique(r, candidates) ==
    /\ r.ok <=> Cardinality(candidates) = 1
    /\ r.ok => candidates = {r.val}
    /\ ~r.ok => r.val = candidates

\* C11: get_start_id on the graph's link map returns Ok(x) iff x is the
\* only node without predecessors, and otherwise the error listing exactly
\* the nodes without predecessors (none, or several); get_end_id does the
\* same over the nodes without successors.
C11_UniqueStartAndEnd ==
    /\ pc = "start" => Unique(result[1], NoPredecessor)
    /\ pc = "end" => Unique(result[1], NoSuccessor)

\* get_start_id has failed on a graph with two nodes without predecessors
C11_Witness ==
    /\ pc = "start"
    /\ ~result[1].ok
    /\ Cardinality(result[1].val) = 2
    /\ Cardinality(graph.nodes) = 3

\* C12: validate_end_connection(l_map, start_id, end_id) returns Ok iff
\* end_id = start_id or end_id occurs in get_bfs_path(l_map, start_id), that
\* is iff end_id is reachable from start_id along zero or more edges;
\* otherwise it returns the error carrying exactly start_id and end_id.
C12_ValidateIffReachable ==
    pc = "validated" =>
        LET r == result[1]
        IN  /\ r.ok <=> (end_id = start_id \/ contains(path, end_id))
            /\ r.ok <=> end_id \in ReachFrom(graph.edges, {start_id})
            /\ ~r.ok => r.val = [start_id |-> start_id, end_id |-> end_id]

\* an end node in the middle of the traversal has been accepted
C12_Witness ==
    /\ pc = "validated"
    /\ result[1].ok
    /\ Len(path) = 3
    /\ end_id = path[2]

\* the number of edges on a shortest walk from the set S to n, counted
\* from k; n is reachable from S
RECURSIVE Distance(_, _, _, _)
Distance(E, S, n, k) ==
    IF n \in S THEN k
    ELSE Distance(E, S \cup {e[2] : e \in {d \in E : d[1] \in S}}, n, k + 1)

\* C20: on every link map, cyclic or not, and every start_id, get_bfs_path
\* returns a sequence that starts with start_id, holds no id twice, holds
\* exactly the ids reachable from start_id, and lists them in non-decreasing
\* breadth-first distance from start_id.
C20_BfsPathIsBreadthFirst ==
    pc \in {"path", "validated"} =>
        /\ Len(path) >= 1
        /\ path[1] = start_id
        /\ \A i, j \in DOMAIN path : i # j => path[i] # path[j]
        /\ {path[i] : i \in DOMAIN path} = ReachFrom(graph.edges, {start_id})
        /\ \A i, j \in DOMAIN path :
              i < j => Distance(graph.edges, {start_id}, path[i], 0)
                       <= Distance(graph.edges, {start_id}, path[j], 0)

\* the traversal of a cycle of three nodes: ids at distances 0, 1 and 2, the
\* last one with an edge leading back to the start
C20_Witness ==
    /\ pc = "path"
    /\ Len(path) = 3
    /\ << path[3], start_id >> \in graph.edges
    /\ Distance(graph.edges, {start_id}, path[3], 0) = 2

\* ------------------------------------------------------------------------
\* Claims on GraphCritData::add (checked under SpecAdd)
\* ------------------------------------------------------------------------
\* the aggregates that received an add
Receivers == {adds[k][1] : k \in DOMAIN adds}

RowCounts == [i \in 1..Len(workers) |-> workers[i].data.row_count]

\* C4: with the budget MaxLoopCondition{max = m, index = 0}, a worker's
\* row_count never exceeds the passes its loop has made nor m, it counts
\* pairwise distinct samples only (no sample is folded in twice), and the
\* row_counts of the N workers analyze splits the budget across sum to at
\* most m.
C4_RowCountWithinBudget ==
    /\ \A i \in 1..Len(workers) :
          LET w == workers[i]
          IN  /\ w.data.row_count <= w.loop_condition.index
              /\ w.loop_condition.index <= w.loop_condition.max
              /\ w.data.row_count <= crit.loop_condition.max
              /\ \A sample \in DOMAIN w.folded : w.folded[sample] = 1
              /\ w.data.row_count = Cardinality(DOMAIN w.folded)
    /\ SumSeq(RowCounts) <= crit.loop_condition.max

\* a budget of 4 split across two workers, both finished and received: the
\* one with the budget [2, 4] drew the same sample twice and counted it
\* once, the other accepted two distinct samples
C4_Witness ==
    /\ pc = "done"
    /\ crit.threads = 2
    /\ crit.loop_condition = MaxLoopCondition(4, 0)
    /\ Len(received) = 2
    /\ workers[1].loop_condition = MaxLoopCondition(4, 4)
    /\ workers[1].data.row_count = 1
    /\ workers[2].loop_condition = MaxLoopCondition(2, 2)
    /\ workers[2].data.row_count = 2

\* the chain leaf(10) -> mid(20) -> top(30) with off_chance(20) = 0.0
ChainRun ==
    /\ graph.edges = {<< 10, 20 >>, << 20, 30 >>}
    /\ crit.dynamic_ids = {20}
    /\ crit.end_id = 30
    /\ Get(crit.vis_gen.off_chances, 20) = Some(0)

\* C5: on the chain 10 -> 20 -> 30 with the OrRule, dynamic ids {20} and
\* off_chance(20) = 0.0, every accepted sample gives the top node the value
\* 1.0: when a worker's loop has ended, end_op_sum = row_count * 1.0,
\* sum_end_on of node 20 = row_count * 1.0 and its sum_end_off = 0.
C5_ChainAlwaysFullyOperable ==
    ChainRun =>
        \A i \in 1..Len(workers) :
            workers[i].pc \in {"send", "done"} =>
                LET data == workers[i].data
                IN  /\ data.end_op_sum = as_f64(data.row_count * MAX_OPERABILITY)
                    /\ data.node_data[20].sum_end_on
                           = as_f64(data.row_count * MAX_OPERABILITY)
                    /\ data.node_data[20].sum_end_off = as_f64(0)

\* the aggregates that are in the channel or were received
Arrived == channel \o received

\* C14: for every worker count N >= 1 and every interleaving, analyze
\* launches exactly N workers, each worker sends exactly one aggregate and
\* only after its loop condition has returned true, and the receive loop
\* ends only after exactly N aggregates, one per worker, were received.
C14_ExactlyOneAggregatePerWorker ==
    /\ pc \in {"receive", "done"} => Len(workers) = crit.threads
    /\ \A i \in 1..Len(workers) :
          /\ workers[i].sent = (IF workers[i].pc = "done" THEN 1 ELSE 0)
          /\ workers[i].pc \in {"send", "done"} => workers[i].stopped
    /\ Len(Arrived) = Cardinality({i \in 1..Len(workers) : workers[i].pc = "done"})
    /\ pc = "done" =>
          /\ Len(received) = crit.threads
          /\ \E f \in [1..Len(received) -> 1..Len(workers)] :
                /\ \A j, k \in 1..Len(received) : j # k => f[j] # f[k]
                /\ \A j \in 1..Len(received) : received[j] = workers[f[j]].data

\* main and analyze have not started a worker or drawn a sample
NothingSampled ==
    /\ workers = << >>
    /\ channel = << >>
    /\ received = << >>

\* C16: a run draws no sample and starts no worker if the graph has no or
\* several start candidates, no or several end candidates, or an end node
\* that is not reachable from the start node: it aborts before sampling.
C16_AbortsBeforeSampling ==
    ( \/ Cardinality(NoPredecessor) # 1
      \/ Cardinality(NoSuccessor) # 1
      \/ \E s \in NoPredecessor, e \in NoSuccessor :
            e \notin ReachFrom(graph.edges, {s}) ) => NothingSampled

\* the step of worker i is a pass of its loop in which stop() returned
\* false
LoopPass(i) ==
    /\ Len(workers') = Len(workers)
    /\ workers[i].pc = "loop"
    /\ workers'[i] # workers[i]
    /\ ~workers'[i].stopped

\* C18: in a pass of a worker's loop in which stop() returned false and the
\* drawn sample is in the seen-set, the aggregate and the seen-set stay as
\* they are, roll_up_state is not called, and the condition's index has
\* advanced by one.
C18_DuplicateOnlyConsumesBudget ==
    [][\A i \in 1..Len(workers) :
          (LoopPass(i) /\ workers'[i].visibility_state[1] \in workers[i].visited) =>
              /\ workers'[i].data = workers[i].data
              /\ workers'[i].visited = workers[i].visited
              /\ workers'[i].folded = workers[i].folded
              /\ workers'[i].roll_ups = workers[i].roll_ups
              /\ workers'[i].pc = "loop"
              /\ workers'[i].loop_condition.index = workers[i].loop_condition.index + 1
              /\ workers'[i].loop_condition.max = workers[i].loop_condition.max]_vars

\* a worker has made three passes on two dynamic ids: it accepted two
\* samples and its last draw repeated the first of them
C18_Witness ==
    \E i \in 1..Len(workers) :
        LET w == workers[i]
        IN  /\ w.pc = "loop"
            /\ w.loop_condition.index = 3
            /\ Cardinality(w.visited) = 2
            /\ w.data.row_count = 2
            /\ w.roll_ups = 2
            /\ w.visibility_state # None
            /\ w.visibility_state[1] \in w.visited
            /\ Cardinality(DOMAIN w.visibility_state[1]) = 2

\* the value roll_up_state gives node n under the sample
ValueOf(n, sample) == roll_up_state(path, l_map, sample)[1][n]

\* C19: an accepted sample changes the worker's aggregate by exactly
\* row_count + 1, end_op_sum + value(end_id), and for every dynamic id d
\* sum_end_on[d] + value(d) when d is absent from the sample or marked
\* visible, sum_end_off[d] + value(d) when d is marked not visible, the
\* other sum staying as it is; the keys of node_data are the dynamic ids.
C19_AcceptedSampleFold ==
    [][\A i \in 1..Len(workers) :
          LET w == workers[i]
              sample == workers'[i].visibility_state[1]
              new == workers'[i].data
          IN  ( /\ LoopPass(i)
                /\ sample \notin w.visited
                /\ workers'[i].pc # "panicked" ) =>
                  /\ new.row_count = w.data.row_count + 1
                  /\ new.end_op_sum
                        = f64_add(w.data.end_op_sum, as_f64(ValueOf(crit.end_id, sample)))
                  /\ DOMAIN new.node_data = crit.dynamic_ids
                  /\ DOMAIN w.data.node_data = crit.dynamic_ids
                  /\ \A d \in crit.dynamic_ids :
                        LET on == new.node_data[d].sum_end_on
                            off == new.node_data[d].sum_end_off
                            old == w.data.node_data[d]
                            val == as_f64(ValueOf(d, sample))
                        IN  IF d \notin DOMAIN sample \/ sample[d] = VISIBLE_VAL
                            THEN /\ on = f64_add(old.sum_end_on, val)
                                 /\ off = old.sum_end_off
                            ELSE /\ off = f64_add(old.sum_end_off, val)
                                 /\ on = old.sum_end_on]_vars

\* a worker on the chain 10 -> 20 -> 30 -> 40 has accepted two samples: 20
\* and 30 visible, then 20 visible and 30 not visible
C19_Witness ==
    \E i \in 1..Len(workers) :
        LET w == workers[i]
        IN  /\ crit.dynamic_ids = {20, 30}
            /\ w.visibility_state # None
            /\ w.visited = {[d \in {20, 30} |-> 1], w.visibility_state[1]}
            /\ w.visibility_state[1] = (20 :> 1 @@ 30 :> 0)
            /\ w.data.row_count = 2
            /\ w.data.end_op_sum = as_f64(10)
            /\ w.data.node_data[20] = NodeCritData(as_f64(20), as_f64(0))
            /\ w.data.node_data[30] = NodeCritData(as_f64(10), as_f64(0))

\* C15: with N >= 1 workers and a condition with index <= max, under fair
\* scheduling every worker's loop eventually reaches Stopped and sends its
\* aggregate, every sender is dropped, and analyze returns.
C15_EveryWorkerSendsAndAnalyzeReturns ==
    (pc = "analyze") ~>
        ( /\ pc = "done"
          /\ Len(workers) = crit.threads
          /\ \A i \in 1..Len(workers) :
                workers[i].stopped /\ workers[i].sent = 1 )


\* ------------------------------------------------------------------------
\* C17
\* ------------------------------------------------------------------------
\* the id cells (columns 1 and 3) that are not there or not numeric
MalformedCells(matrix) ==
    {<< x, y >> \in {1, 3} \X (0..(Len(matrix) - 1)) :
        \/ x + 1 \notin DOMAIN matrix[y + 1]
        \/ parse_u32(trim(matrix[y + 1][x + 1])) = None}

MalformedRows(matrix) == {cell[2] : cell \in MalformedCells(matrix)}

\* the positions a returned Result holds an error for
RecordedCells(r) ==
    IF r.ok THEN {} ELSE {r.val.errors[i].cell_pos : i \in DOMAIN r.val.errors}

\* a returned Result hands over the graph built from every row
ObtainsGraph(r) ==
    /\ r.ok
    /\ r.val.graph =
           create_graph_loop(records, 0, Graph({}, {}, {}), << >>, << >>).graph

AlphaWellFormed ==
    /\ alpha_records # << >>
    /\ \A y \in DOMAIN alpha_records[1] : parse_f32(alpha_records[1][y]) # None

\* create_graph holds an error for every malformed cell of every row
C17_EveryMalformedCellRecorded ==
    (loaded # None /\ loaded[1].call = "create_graph")
        => MalformedCells(records) \subseteq RecordedCells(loaded[1].ret[1])

\* create_graph on rows without a malformed cell returns the graph, no error
C17_WellFormedLoadsInCreateGraph ==
    (loaded # None /\ loaded[1].call = "create_graph"
        /\ MalformedCells(records) = {})
        => ObtainsGraph(loaded[1].ret[1])

\* read on rows without a malformed cell returns the graph, no error
C17_WellFormedLoadsInRead ==
    (loaded # None /\ loaded[1].call = "read" /\ AlphaWellFormed
        /\ MalformedCells(records) = {})
        => (loaded[1].ret # None /\ loaded[1].ret[1].ok)

\* C17: when only some rows have a missing or non-numeric id cell,
\* create_graph records an error for every malformed cell of every row and
\* the caller (of create_graph, and of read) still obtains the graph built
\* from all rows; a load with no malformed row returns the graph with no
\* error.
C17_ErrorsCollectedGraphKept ==
    /\ C17_EveryMalformedCellRecorded
    /\ C17_WellFormedLoadsInCreateGraph
    /\ C17_WellFormedLoadsInRead
    /\ (loaded # None /\ MalformedRows(records) # {}
          /\ MalformedRows(records) # 0..(Len(records) - 1))
        => (loaded[1].ret # None /\ ObtainsGraph(loaded[1].ret[1]))


\* ------------------------------------------------------------------------
\* C21
\* ------------------------------------------------------------------------
\* the ids of the traversal order analyze has computed
PathIds == {path[k] : k \in DOMAIN path}

\* C21: for every graph get_start_id and get_end_id accept, with the
\* dynamic ids main builds (every node id but start and end), the traversal
\* order from the start node contains the end id and every dynamic id, and
\* no worker reaches the unwrap on a missing value.
C21_TraversalCoversEndAndDynamicIds ==
    /\ pc \in {"spawn", "receive", "done"} =>
          /\ crit.end_id \in PathIds
          /\ crit.dynamic_ids \subseteq PathIds
    /\ \A i \in 1..Len(workers) : workers[i].pc # "panicked"


\* ------------------------------------------------------------------------
\* C23
\* ------------------------------------------------------------------------
\* C23: the seen-set is private to its worker under every interleaving: a
\* pass of worker i's loop leaves every other worker as it is, no sample is
\* folded into an aggregate twice, and a sample that is not in worker i's
\* own seen-set is accepted whether or not another worker has accepted an
\* equal one.
C23_DeduplicationPrivatePerWorker ==
    [][\A i \in 1..Len(workers) :
          LoopPass(i) =>
              /\ \A j \in 1..Len(workers) : j # i => workers'[j] = workers[j]
              /\ \A sample \in DOMAIN workers'[i].folded :
                    workers'[i].folded[sample] = 1
              /\ LET sample == workers'[i].visibility_state[1]
                 IN  (sample \notin workers[i].visited
                        /\ workers'[i].pc # "panicked") =>
                         /\ sample \in workers'[i].visited
                         /\ sample \in DOMAIN workers'[i].folded
                         /\ workers'[i].data.row_count
                               = workers[i].data.row_count + 1]_vars

\* two workers have each accepted the same sample, one dynamic id marked
\* not visible
C23_Witness ==
    /\ Len(workers) = 2
    /\ crit.dynamic_ids = {20}
    /\ (20 :> 0) \in workers[1].visited
    /\ (20 :> 0) \in workers[2].visited
    /\ workers[1].data.row_count = 1
    /\ workers[2].data.row_count = 1

\* ------------------------------------------------------------------------
\* C25
\* ------------------------------------------------------------------------
HasPredecessor(d) == \E e \in graph.edges : e[2] = d

\* C25: in every state of a worker loop sum_end_off is 0 for every dynamic
\* id with at least one predecessor, and every dynamic id main builds has
\* one; the same holds of the aggregates sent.
C25_SumEndOffIsZero ==
    /\ \A d \in crit.dynamic_ids : HasPredecessor(d)
    /\ \A i \in 1..Len(workers) :
          \A d \in DOMAIN workers[i].data.node_data :
              HasPredecessor(d) =>
                  workers[i].data.node_data[d].sum_end_off = as_f64(0)
    /\ \A k \in 1..Len(Arrived) :
          \A d \in DOMAIN Arrived[k].node_data :
              Arrived[k].node_data[d].sum_end_off = as_f64(0)

\* a worker on the chain 10 -> 20 -> 30 -> 40 has accepted the sample in
\* which 20 is not visible and 30 is visible
C25_Witness ==
    \E i \in 1..Len(workers) :
        LET w == workers[i]
        IN  /\ crit.dynamic_ids = {20, 30}
            /\ w.visited = {(20 :> 0 @@ 30 :> 1)}
            /\ w.data.row_count = 1
            /\ w.data.node_data[20] = NodeCritData(as_f64(0), as_f64(0))
            /\ w.data.node_data[30] = NodeCritData(as_f64(0), as_f64(0))

\* ------------------------------------------------------------------------
\* C26
\* ------------------------------------------------------------------------
\* C26: at the head of every pass of a worker's loop row_count is the size
\* of the seen-set and next_states was called once per stop() that returned
\* false; when the loop of a worker started with index <= max has ended,
\* it has drawn max - index samples and row_count is the number of distinct
\* samples among them.
C26_LoopCounters ==
    \A i \in 1..Len(workers) :
        LET w == workers[i]
        IN  /\ w.pc = "loop" =>
                  /\ w.data.row_count = Cardinality(w.visited)
                  /\ w.draws = w.stop_false
            /\ (w.stopped /\ w.first.index <= w.first.max) =>
                  /\ w.draws = w.first.max - w.first.index
                  /\ w.data.row_count = Cardinality(w.samples)

\* a worker started with max 3 and index 0 has ended its loop: three draws,
\* two distinct samples
C26_Witness ==
    \E i \in 1..Len(workers) :
        LET w == workers[i]
        IN  /\ w.stopped
            /\ w.first = MaxLoopCondition(3, 0)
            /\ w.draws = 3
            /\ Cardinality(w.samples) = 2
            /\ w.data.row_count = 2


\* ------------------------------------------------------------------------
\* C22
\* ------------------------------------------------------------------------
\* how often x occurs in the list
Occurrences(list, x) == Cardinality({k \in DOMAIN list : list[k] = x})

\* C22: after any sequence of add_node and add_edge calls the nodes are
\* keyed by their id, and links_map() has an entry exactly for every id
\* that is an endpoint of an edge; the predecessor list of x holds each u
\* with an edge (u, x) exactly once and nothing else, its successor list
\* each v with an edge (x, v) exactly once and nothing else.
C22_LinksMapListsEveryEdgeOnce ==
    /\ \A id \in DOMAIN built.nodes : built.nodes[id].id = id
    /\ built_links # None =>
          LET map == built_links[1]
              E == built.edges
          IN  /\ DOMAIN map = {e[1] : e \in E} \cup {e[2] : e \in E}
              /\ \A x \in DOMAIN map :
                    /\ \A u \in BuildIds :
                          Occurrences(map[x][1], u)
                              = (IF << u, x >> \in E THEN 1 ELSE 0)
                    /\ \A v \in BuildIds :
                          Occurrences(map[x][2], v)
                              = (IF << x, v >> \in E THEN 1 ELSE 0)

\* node 10 was added twice and holds the later name; links_map was called
\* on the edges 10 -> 20, 30 -> 20 and 20 -> 20
C22_Witness ==
    /\ built.nodes = (10 :> Node("b", 10))
    /\ built.edges = {<< 10, 20 >>, << 30, 20 >>, << 20, 20 >>}
    /\ built_links # None
    /\ Len(built_links[1][20][1]) = 3
    /\ built_links[1][20][2] = << 20 >>


\* ------------------------------------------------------------------------
\* C24
\* ------------------------------------------------------------------------
\* the orders of the graph's nodes in which every edge leads forward
TopologicalOrders ==
    {order \in Orders(graph.nodes) :
        \A e \in graph.edges :
            \E j, k \in DOMAIN order :
                order[j] = e[1] /\ order[k] = e[2] /\ j < k}

\* C24: on an acyclic graph with a unique start node, roll_up_state with
\* the OrRule along get_bfs_path(start_id) gives every node, the end node
\* included, the value a roll-up along a topological order gives it, for
\* every visibility sample.
C24_BfsRollUpEqualsTopologicalRollUp ==
    ( /\ pc = "rolled"
      /\ Acyclic(graph.edges)
      /\ get_start_id(l_map).ok
      /\ get_start_id(l_map).val = start_id ) =>
        \A order \in TopologicalOrders :
            roll_up_state(order, l_map, visibilities) = Some(new_state)

====
